---- MODULE Spec2Model ----
(***************************************************************************)
(* Flintrock's command-line layer (flintrock/flintrock.py): the option     *)
(* checks, the commands launch, destroy, start, stop, run-command and      *)
(* copy-file, and main's mapping of exceptions to exit codes.              *)
(*                                                                         *)
(* Strings the code inspects character by character (option names,         *)
(* variable names, paths) are sequences of one-character strings.  Option  *)
(* values are strings; Python's None, True and False are the strings       *)
(* "None", "True" and "False".  The provider module (ec2), the cluster     *)
(* object and click.confirm are outside this file: a call to one of them   *)
(* is recorded in `calls` and its outcome is chosen nondeterministically.  *)
(***************************************************************************)
EXTENDS Integers, Sequences, FiniteSets, TLC

\* ------------------------------------------------------------------ bounds

\* longest local or remote path drawn for copy-file
MaxPathLen == 3

\* longest requires_all / requires_any / options list drawn for a direct call
MaxRequires == 2

\* largest number of slaves of a cluster
MaxSlaves == 2

\* ------------------------------------------------------------ Python values

None == "None"

\* Python's truth value of an option value: None, '' and False are falsy.
Truthy(v) == v \notin {None, "", "False"}

\* bool -> the string standing for it
PyBool(b) == IF b THEN "True" ELSE "False"

\* ------------------------------------------------ option and variable names

\* the option name --install-hdfs
Opt_install_hdfs ==
    <<"-", "-", "i", "n", "s", "t", "a", "l", "l", "-", "h", "d", "f", "s">>

\* the option name --hdfs-version
Opt_hdfs_version ==
    <<"-", "-", "h", "d", "f", "s", "-", "v", "e", "r", "s", "i", "o", "n">>

\* the option name --install-spark
Opt_install_spark ==
    <<"-", "-", "i", "n", "s", "t", "a", "l", "l", "-", "s", "p", "a", "r", "k">>

\* the option name --spark-version
Opt_spark_version ==
    <<"-", "-", "s", "p", "a", "r", "k", "-", "v", "e", "r", "s", "i", "o", "n">>

\* the option name --spark-git-commit
Opt_spark_git_commit ==
    <<"-", "-", "s", "p", "a", "r", "k", "-", "g", "i", "t", "-", "c", "o", "m", "m", "i", "t">>

\* the option name --provider
Opt_provider ==
    <<"-", "-", "p", "r", "o", "v", "i", "d", "e", "r">>

\* the option name --ec2-key-name
Opt_ec2_key_name ==
    <<"-", "-", "e", "c", "2", "-", "k", "e", "y", "-", "n", "a", "m", "e">>

\* the option name --ec2-identity-file
Opt_ec2_identity_file ==
    <<"-", "-", "e", "c", "2", "-", "i", "d", "e", "n", "t", "i", "t", "y", "-", "f", "i", "l", "e">>

\* the option name --ec2-instance-type
Opt_ec2_instance_type ==
    <<"-", "-", "e", "c", "2", "-", "i", "n", "s", "t", "a", "n", "c", "e", "-", "t", "y", "p", "e">>

\* the option name --ec2-region
Opt_ec2_region ==
    <<"-", "-", "e", "c", "2", "-", "r", "e", "g", "i", "o", "n">>

\* the option name --ec2-ami
Opt_ec2_ami ==
    <<"-", "-", "e", "c", "2", "-", "a", "m", "i">>

\* the option name --ec2-user
Opt_ec2_user ==
    <<"-", "-", "e", "c", "2", "-", "u", "s", "e", "r">>

\* the Python local variable install_hdfs
Var_install_hdfs ==
    <<"i", "n", "s", "t", "a", "l", "l", "_", "h", "d", "f", "s">>

\* the Python local variable hdfs_version
Var_hdfs_version ==
    <<"h", "d", "f", "s", "_", "v", "e", "r", "s", "i", "o", "n">>

\* the Python local variable install_spark
Var_install_spark ==
    <<"i", "n", "s", "t", "a", "l", "l", "_", "s", "p", "a", "r", "k">>

\* the Python local variable spark_version
Var_spark_version ==
    <<"s", "p", "a", "r", "k", "_", "v", "e", "r", "s", "i", "o", "n">>

\* the Python local variable spark_git_commit
Var_spark_git_commit ==
    <<"s", "p", "a", "r", "k", "_", "g", "i", "t", "_", "c", "o", "m", "m", "i", "t">>

\* the Python local variable provider
Var_provider ==
    <<"p", "r", "o", "v", "i", "d", "e", "r">>

\* the Python local variable ec2_key_name
Var_ec2_key_name ==
    <<"e", "c", "2", "_", "k", "e", "y", "_", "n", "a", "m", "e">>

\* the Python local variable ec2_identity_file
Var_ec2_identity_file ==
    <<"e", "c", "2", "_", "i", "d", "e", "n", "t", "i", "t", "y", "_", "f", "i", "l", "e">>

\* the Python local variable ec2_instance_type
Var_ec2_instance_type ==
    <<"e", "c", "2", "_", "i", "n", "s", "t", "a", "n", "c", "e", "_", "t", "y", "p", "e">>

\* the Python local variable ec2_region
Var_ec2_region ==
    <<"e", "c", "2", "_", "r", "e", "g", "i", "o", "n">>

\* the Python local variable ec2_ami
Var_ec2_ami ==
    <<"e", "c", "2", "_", "a", "m", "i">>

\* the Python local variable ec2_user
Var_ec2_user ==
    <<"e", "c", "2", "_", "u", "s", "e", "r">>

\* --------------------------------------------------------- string helpers

\* str.find('--') + 1: the position of the first "--" in s, 0 when there is none
FirstDashDash(s) ==
    LET hits == {i \in 1..(Len(s) - 1) : s[i] = "-" /\ s[i + 1] = "-"}
    IN  IF hits = {} THEN 0 ELSE CHOOSE i \in hits : \A j \in hits : i <= j

\* option.replace('--', '', 1).replace('-', '_')
option_name_to_variable_name(option) ==
    LET at == FirstDashDash(option)
        cut == IF at = 0 THEN option
               ELSE SubSeq(option, 1, at - 1) \o SubSeq(option, at + 2, Len(option))
    IN  [i \in 1..Len(cut) |-> IF cut[i] = "-" THEN "_" ELSE cut[i]]

\* posixpath.basename(p): what follows the last "/" (all of p when it has none)
basename(p) ==
    LET slashes == {i \in 1..Len(p) : p[i] = "/"}
        last == IF slashes = {} THEN 0
                ELSE CHOOSE i \in slashes : \A j \in slashes : j <= i
    IN  SubSeq(p, last + 1, Len(p))

\* posixpath.join(a, b)
join(a, b) ==
    IF b # <<>> /\ b[1] = "/" THEN b
    ELSE IF a = <<>> \/ a[Len(a)] = "/" THEN a \o b
    ELSE a \o <<"/">> \o b

\* ------------------------------------------------------- the option checks

\* Missing with the test `not scope.get(required_name)`: '' counts as missing
Missing_falsy(required_option, scope) ==
    LET required_name == option_name_to_variable_name(required_option)
    IN  required_name \notin DOMAIN scope \/ ~Truthy(scope[required_name])

\* `required_name not in scope or scope[required_name] is None`
Missing(required_option, scope) ==
    LET required_name == option_name_to_variable_name(required_option)
    IN  required_name \notin DOMAIN scope \/ scope[required_name] = None

\* option_requires: "UsageError" when it raises UsageError, "KeyError" when the
\* lookup of the option itself fails, "ok" when it returns.
option_requires(option, conditional_value, requires_all, requires_any, scope) ==
    LET name == option_name_to_variable_name(option) IN
    IF conditional_value # None /\ name \notin DOMAIN scope THEN "KeyError"
    ELSE IF conditional_value = None \/ scope[name] = conditional_value THEN
        IF requires_all # <<>>
           /\ \E i \in 1..Len(requires_all) : Missing(requires_all[i], scope)
        THEN "UsageError"
        ELSE IF requires_any # <<>>
                /\ \A i \in 1..Len(requires_any) : Missing(requires_any[i], scope)
        THEN "UsageError"
        ELSE "ok"
    ELSE "ok"

\* mutually_exclusive with the test `scope[name] is not None`
mutually_exclusive_is_not_None(options, scope) ==
    LET names == {option_name_to_variable_name(options[i]) : i \in 1..Len(options)}
        used == {name \in DOMAIN scope : name \in names /\ scope[name] # None}
    IN  IF Cardinality(used) > 1 THEN "UsageError" ELSE "ok"

\* the used_options set mutually_exclusive collects
used_options(options, scope) ==
    LET mutually_exclusive_names ==
            {option_name_to_variable_name(options[i]) : i \in 1..Len(options)}
    IN  {name \in DOMAIN scope :
            name \in mutually_exclusive_names /\ Truthy(scope[name])}

\* mutually_exclusive: "UsageError" when it raises, "ok" when it returns
mutually_exclusive(options, scope) ==
    IF Cardinality(used_options(options, scope)) > 1 THEN "UsageError" ELSE "ok"

\* ------------------------------------------------------------------ inputs

\* option values: not given, given empty, given
Values == {None, "", "v"}

\* the options a direct call of a check is tried with, and their variables
UnitOptions == {<<"-", "-", "a">>, <<"-", "-", "b", "-", "c">>}

UnitNames == {<<"a">>, <<"b", "_", "c">>}

\* the scopes of a direct call: each variable absent, None, '' or 'v'
UnitScopes ==
    UNION {[names -> Values] : names \in SUBSET UnitNames}

\* every list of at most n elements of S
SeqsUpTo(S, n) == UNION {[1..k -> S] : k \in 0..n}

\* the characters of a path
PathChars == {"/", "a"}

\* remote_path is a click.Path(): any string
RemotePaths == SeqsUpTo(PathChars, MaxPathLen)

\* local_path is a click.Path(exists=True, dir_okay=False): it names a file
LocalPaths == {p \in RemotePaths : p # <<>> /\ p[Len(p)] # "/"}

\* os.path.getsize(local_path)
FileSizes == {0, 333334, 500000, 1000000, 1000001}

\* what a call into the provider, the cluster or a guard may do: return, or
\* raise one of the tool's exceptions or any other exception
Outcomes == {"ok", "NothingToDo", "UsageError", "Error", "Exception"}

\* ------------------------------------------------------------------- state

VARIABLES
    pc,            \* where the process is
    command,       \* the command click dispatched to
    scope,         \* the command's locals() that the option checks look up
    assume_yes,    \* --assume-yes
    master_only,   \* --master-only
    local_path,    \* copy-file's local_path argument
    arg_remote_path, \* copy-file's remote_path argument as given
    remote_path,   \* copy-file's local variable remote_path
    file_size_bytes, \* copy-file: os.path.getsize(local_path), -1 before
    num_nodes,     \* copy-file: len(cluster.slave_ips) + 1, 0 before
    services,      \* launch's services list
    calls,         \* the calls made outside this file, in order
    copied_to,     \* the remote_path cluster.copy_file was called with
    launched,      \* the services ec2.launch was called with
    raised,        \* the exception that left the command, "none" if none
    exit_code,     \* the process's exit code, -1 while running
    traceback,     \* whether main printed a traceback
    unit           \* a direct call of a check: its arguments and result

vars == <<pc, command, scope, assume_yes, master_only, local_path,
          arg_remote_path, remote_path, file_size_bytes, num_nodes, services,
          calls, copied_to, launched, raised, exit_code, traceback, unit>>

EmptyScope == [n \in {} |-> None]

Init ==
    /\ pc = "ready"
    /\ command = "none"
    /\ scope = EmptyScope
    /\ assume_yes = FALSE
    /\ master_only = FALSE
    /\ local_path = <<>>
    /\ arg_remote_path = <<>>
    /\ remote_path = <<>>
    /\ file_size_bytes = -1
    /\ num_nodes = 0
    /\ services = <<>>
    /\ calls = <<>>
    /\ copied_to = <<>>
    /\ launched = <<>>
    /\ raised = "none"
    /\ exit_code = -1
    /\ traceback = FALSE
    /\ unit = [fn |-> "none"]

\* the variables of a running command, for UNCHANGED
cmdvars == <<command, scope, assume_yes, master_only, local_path,
             arg_remote_path, remote_path, file_size_bytes, num_nodes, services,
             calls, copied_to, launched, raised, exit_code, traceback>>

\* ------------------------------------------------- direct calls of a check

\* option_requires called with arguments drawn from the bounded sets
Call_option_requires ==
    /\ pc = "ready"
    /\ \E option \in UnitOptions, conditional_value \in Values,
          requires_all \in SeqsUpTo(UnitOptions, MaxRequires),
          requires_any \in SeqsUpTo(UnitOptions, MaxRequires),
          sc \in UnitScopes :
         unit' = [fn |-> "option_requires",
                  option |-> option,
                  conditional_value |-> conditional_value,
                  requires_all |-> requires_all,
                  requires_any |-> requires_any,
                  scope |-> sc,
                  result |-> option_requires(option, conditional_value,
                                             requires_all, requires_any, sc)]
    /\ pc' = "returned"
    /\ UNCHANGED cmdvars

\* mutually_exclusive called with arguments drawn from the bounded sets
Call_mutually_exclusive ==
    /\ pc = "ready"
    /\ \E options \in SeqsUpTo(UnitOptions, MaxRequires), sc \in UnitScopes :
         unit' = [fn |-> "mutually_exclusive",
                  options |-> options,
                  scope |-> sc,
                  result |-> mutually_exclusive(options, sc)]
    /\ pc' = "returned"
    /\ UNCHANGED cmdvars

\* ------------------------------------------------------- shared step shapes

\* an exception leaves the command: click.Abort is handled by click itself,
\* every other exception reaches main's except clauses
Raise(e) ==
    /\ raised' = e
    /\ pc' = IF e = "Abort" THEN "click_abort" ELSE "main_except"

\* a call outside this file with the outcome it had
Call(fn, outcome) == [fn |-> fn, outcome |-> outcome]

\* a call outside this file: recorded with its outcome, then it returns (the
\* command goes on at `next`) or raises
Called(name, next) ==
    \E o \in Outcomes :
      /\ calls' = Append(calls, Call(name, o))
      /\ IF o = "ok" THEN pc' = next /\ raised' = raised ELSE Raise(o)

\* PrintAndConfirm with `abort=False`: a refusal is recorded and ignored
PrintAndConfirm_no_abort(next) ==
    \E o \in Outcomes :
      IF o # "ok"
      THEN calls' = Append(calls, Call("cluster.print", o)) /\ Raise(o)
      ELSE \E answer \in BOOLEAN :
             /\ calls' = calls \o <<Call("cluster.print", "ok"),
                                    Call("click.confirm",
                                         IF answer THEN "ok" ELSE "Abort")>>
             /\ pc' = next
             /\ raised' = raised

\* `cluster.print()` then `click.confirm(..., abort=True)`: the cluster is
\* printed, the user is asked, and a refusal raises click.Abort
PrintAndConfirm(next) ==
    \E o \in Outcomes :
      IF o # "ok"
      THEN calls' = Append(calls, Call("cluster.print", o)) /\ Raise(o)
      ELSE \E answer \in BOOLEAN :
             IF answer
             THEN /\ calls' = calls \o <<Call("cluster.print", "ok"),
                                         Call("click.confirm", "ok")>>
                  /\ pc' = next
                  /\ raised' = raised
             ELSE /\ calls' = calls \o <<Call("cluster.print", "ok"),
                                         Call("click.confirm", "Abort")>>
                  /\ Raise("Abort")

\* `option_requires(option='--provider', conditional_value='ec2', ...)` of the
\* commands that need only the region
requires_region(sc) ==
    option_requires(Opt_provider, "ec2", <<Opt_ec2_region>>, <<>>, sc)

\* ... and of the commands that log in to the nodes
requires_login(sc) ==
    option_requires(Opt_provider, "ec2",
                    <<Opt_ec2_region, Opt_ec2_identity_file, Opt_ec2_user>>,
                    <<>>, sc)

\* locals() of destroy and stop
RegionScope(region) ==
    (Var_provider :> "ec2") @@ (Var_ec2_region :> region)

\* locals() of start, run-command and copy-file
LoginScope(region, identity_file, user) ==
    (Var_provider :> "ec2") @@ (Var_ec2_region :> region)
    @@ (Var_ec2_identity_file :> identity_file) @@ (Var_ec2_user :> user)

\* --ec2-region has a default, so click never hands the command None
Regions == {"us-east-1"}

\* an option without a default: None unless given
Optional == {None, "v"}

\* ------------------------------------------------------------------ launch

\* the spark_git_repository option's default
spark_git_repository == "https://github.com/apache/spark.git"

\* locals() of launch, as far as the option checks and the services read them
LaunchScope(hdfs, hdfs_v, spark, spark_v, commit, key, ident, ami, user) ==
    (Var_provider :> "ec2")
    @@ (Var_install_hdfs :> PyBool(hdfs))
    @@ (Var_hdfs_version :> hdfs_v)
    @@ (Var_install_spark :> PyBool(spark))
    @@ (Var_spark_version :> spark_v)
    @@ (Var_spark_git_commit :> commit)
    @@ (Var_ec2_key_name :> key)
    @@ (Var_ec2_identity_file :> ident)
    @@ (Var_ec2_instance_type :> "m3.medium")
    @@ (Var_ec2_region :> "us-east-1")
    @@ (Var_ec2_ami :> ami)
    @@ (Var_ec2_user :> user)

\* click dispatches to launch
Invoke_launch ==
    /\ pc = "ready"
    /\ command' = "launch"
    /\ \E install_hdfs \in BOOLEAN, install_spark \in BOOLEAN,
          hdfs_version \in Values, spark_version \in Values,
          spark_git_commit \in Values, key_name \in Optional,
          identity_file \in Optional, ami \in Optional, user \in Optional :
         scope' = LaunchScope(install_hdfs, hdfs_version, install_spark,
                              spark_version, spark_git_commit, key_name,
                              identity_file, ami, user)
    /\ \E y \in BOOLEAN : assume_yes' = y
    /\ pc' = "launch"
    /\ UNCHANGED <<master_only, local_path, arg_remote_path, remote_path,
                   file_size_bytes, num_nodes, services, calls, copied_to,
                   launched, raised, exit_code, traceback, unit>>

\* launch_option_checks without the provider's check
launch_option_checks_no_provider(sc) ==
    LET hdfs == option_requires(Opt_install_hdfs, None,
                                <<Opt_hdfs_version>>, <<>>, sc)
        spark == option_requires(Opt_install_spark, None, <<>>,
                                 <<Opt_spark_version, Opt_spark_git_commit>>, sc)
        forms == mutually_exclusive(
                     <<Opt_spark_version, Opt_spark_git_commit>>, sc)
    IN  IF hdfs # "ok" THEN hdfs
        ELSE IF spark # "ok" THEN spark
        ELSE forms

\* launch's four option checks in order: the first that raises decides
launch_option_checks(sc) ==
    LET hdfs == option_requires(Opt_install_hdfs, None,
                                <<Opt_hdfs_version>>, <<>>, sc)
        spark == option_requires(Opt_install_spark, None, <<>>,
                                 <<Opt_spark_version, Opt_spark_git_commit>>, sc)
        forms == mutually_exclusive(
                     <<Opt_spark_version, Opt_spark_git_commit>>, sc)
        provider == option_requires(Opt_provider, "ec2",
                        <<Opt_ec2_key_name, Opt_ec2_identity_file,
                          Opt_ec2_instance_type, Opt_ec2_region, Opt_ec2_ami,
                          Opt_ec2_user>>, <<>>, sc)
    IN  IF hdfs # "ok" THEN hdfs
        ELSE IF spark # "ok" THEN spark
        ELSE IF forms # "ok" THEN forms
        ELSE provider

launch_checks ==
    /\ pc = "launch"
    /\ LET r == launch_option_checks(scope)
       IN  IF r = "ok" THEN pc' = "launch_services" /\ raised' = raised
           ELSE Raise(r)
    /\ UNCHANGED <<command, scope, assume_yes, master_only, local_path,
                   arg_remote_path, remote_path, file_size_bytes, num_nodes,
                   services, calls, copied_to, launched, exit_code, traceback,
                   unit>>

\* HDFS(version=...)
HDFS(version) ==
    [service |-> "HDFS", version |-> version,
     git_commit |-> None, git_repository |-> None]

\* Spark(version=...) or Spark(git_commit=..., git_repository=...)
Spark(version, git_commit, git_repository) ==
    [service |-> "Spark", version |-> version,
     git_commit |-> git_commit, git_repository |-> git_repository]

\* `services += [spark]` reads a name neither branch of the if bound
spark_unbound(sc) ==
    /\ Truthy(sc[Var_install_spark])
    /\ ~Truthy(sc[Var_spark_version])
    /\ ~Truthy(sc[Var_spark_git_commit])

\* build_services adding Spark before HDFS
build_services_spark_first(sc) ==
    LET hdfs == IF Truthy(sc[Var_install_hdfs])
                THEN <<HDFS(sc[Var_hdfs_version])>> ELSE <<>>
        spark == IF Truthy(sc[Var_spark_version])
                 THEN Spark(sc[Var_spark_version], None, None)
                 ELSE Spark(None, sc[Var_spark_git_commit], spark_git_repository)
    IN  (IF Truthy(sc[Var_install_spark]) THEN <<spark>> ELSE <<>>) \o hdfs

\* the services list launch builds (when spark is bound)
build_services(sc) ==
    LET hdfs == IF Truthy(sc[Var_install_hdfs])
                THEN <<HDFS(sc[Var_hdfs_version])>> ELSE <<>>
        spark == IF Truthy(sc[Var_spark_version])
                 THEN Spark(sc[Var_spark_version], None, None)
                 ELSE Spark(None, sc[Var_spark_git_commit], spark_git_repository)
    IN  hdfs \o (IF Truthy(sc[Var_install_spark]) THEN <<spark>> ELSE <<>>)

launch_services ==
    /\ pc = "launch_services"
    /\ IF spark_unbound(scope)
       THEN /\ services' = IF Truthy(scope[Var_install_hdfs])
                           THEN <<HDFS(scope[Var_hdfs_version])>> ELSE <<>>
            /\ Raise("UnboundLocalError")
       ELSE /\ services' = build_services(scope)
            /\ pc' = "launch_provider"
            /\ raised' = raised
    /\ UNCHANGED <<command, scope, assume_yes, master_only, local_path,
                   arg_remote_path, remote_path, file_size_bytes, num_nodes,
                   calls, copied_to, launched, exit_code, traceback, unit>>

\* `return ec2.launch(..., services=services, ...)`; the provider is always
\* 'ec2' (click.Choice(['ec2'])), so UnsupportedProviderError is never raised
launch_provider ==
    /\ pc = "launch_provider"
    /\ IF scope[Var_provider] = "ec2"
       THEN /\ launched' = services
            /\ Called("ec2.launch", "main_return")
       ELSE /\ UNCHANGED <<launched, calls>>
            /\ Raise("Error")
    /\ UNCHANGED <<command, scope, assume_yes, master_only, local_path,
                   arg_remote_path, remote_path, file_size_bytes, num_nodes,
                   services, copied_to, exit_code, traceback, unit>>

\* ----------------------------------------------------------------- destroy

Invoke_destroy ==
    /\ pc = "ready"
    /\ command' = "destroy"
    /\ \E region \in Regions : scope' = RegionScope(region)
    /\ \E y \in BOOLEAN : assume_yes' = y
    /\ pc' = "destroy"
    /\ UNCHANGED <<master_only, local_path, arg_remote_path, remote_path,
                   file_size_bytes, num_nodes, services, calls, copied_to,
                   launched, raised, exit_code, traceback, unit>>

destroy_option_requires ==
    /\ pc = "destroy"
    /\ LET r == requires_region(scope)
       IN  IF r = "ok" THEN pc' = "destroy_get_cluster" /\ raised' = raised
           ELSE Raise(r)
    /\ UNCHANGED <<command, scope, assume_yes, master_only, local_path,
                   arg_remote_path, remote_path, file_size_bytes, num_nodes,
                   services, calls, copied_to, launched, exit_code, traceback,
                   unit>>

destroy_get_cluster ==
    /\ pc = "destroy_get_cluster"
    /\ Called("ec2.get_cluster", "destroy_confirm")
    /\ UNCHANGED <<command, scope, assume_yes, master_only, local_path,
                   arg_remote_path, remote_path, file_size_bytes, num_nodes,
                   services, copied_to, launched, exit_code, traceback, unit>>

\* destroy_confirm with the test inverted: `if assume_yes:`
destroy_confirm_inverted ==
    /\ pc = "destroy_confirm"
    /\ IF assume_yes THEN PrintAndConfirm("destroy_destroy")
       ELSE pc' = "destroy_destroy" /\ UNCHANGED <<calls, raised>>
    /\ UNCHANGED <<command, scope, assume_yes, master_only, local_path,
                   arg_remote_path, remote_path, file_size_bytes, num_nodes,
                   services, copied_to, launched, exit_code, traceback, unit>>

\* `if not assume_yes: cluster.print(); click.confirm(..., abort=True)`
destroy_confirm ==
    /\ pc = "destroy_confirm"
    /\ IF ~assume_yes THEN PrintAndConfirm("destroy_destroy")
       ELSE pc' = "destroy_destroy" /\ UNCHANGED <<calls, raised>>
    /\ UNCHANGED <<command, scope, assume_yes, master_only, local_path,
                   arg_remote_path, remote_path, file_size_bytes, num_nodes,
                   services, copied_to, launched, exit_code, traceback, unit>>

\* `cluster.destroy()`
destroy_destroy ==
    /\ pc = "destroy_destroy"
    /\ Called("cluster.destroy", "main_return")
    /\ UNCHANGED <<command, scope, assume_yes, master_only, local_path,
                   arg_remote_path, remote_path, file_size_bytes, num_nodes,
                   services, copied_to, launched, exit_code, traceback, unit>>

\* ------------------------------------------------------------------- start

Invoke_start ==
    /\ pc = "ready"
    /\ command' = "start"
    /\ \E region \in Regions, identity_file \in Optional, user \in Optional :
         scope' = LoginScope(region, identity_file, user)
    /\ pc' = "start"
    /\ UNCHANGED <<assume_yes, master_only, local_path, arg_remote_path,
                   remote_path, file_size_bytes, num_nodes, services, calls,
                   copied_to, launched, raised, exit_code, traceback, unit>>

start_option_requires ==
    /\ pc = "start"
    /\ LET r == requires_login(scope)
       IN  IF r = "ok" THEN pc' = "start_get_cluster" /\ raised' = raised
           ELSE Raise(r)
    /\ UNCHANGED <<command, scope, assume_yes, master_only, local_path,
                   arg_remote_path, remote_path, file_size_bytes, num_nodes,
                   services, calls, copied_to, launched, exit_code, traceback,
                   unit>>

start_get_cluster ==
    /\ pc = "start_get_cluster"
    /\ Called("ec2.get_cluster", "start_check")
    /\ UNCHANGED <<command, scope, assume_yes, master_only, local_path,
                   arg_remote_path, remote_path, file_size_bytes, num_nodes,
                   services, copied_to, launched, exit_code, traceback, unit>>

\* `cluster.start_check()`
start_check ==
    /\ pc = "start_check"
    /\ Called("cluster.start_check", "start_start")
    /\ UNCHANGED <<command, scope, assume_yes, master_only, local_path,
                   arg_remote_path, remote_path, file_size_bytes, num_nodes,
                   services, copied_to, launched, exit_code, traceback, unit>>

\* `cluster.start(user=user, identity_file=identity_file)`
start_start ==
    /\ pc = "start_start"
    /\ Called("cluster.start", "main_return")
    /\ UNCHANGED <<command, scope, assume_yes, master_only, local_path,
                   arg_remote_path, remote_path, file_size_bytes, num_nodes,
                   services, copied_to, launched, exit_code, traceback, unit>>

\* -------------------------------------------------------------------- stop

Invoke_stop ==
    /\ pc = "ready"
    /\ command' = "stop"
    /\ \E region \in Regions : scope' = RegionScope(region)
    /\ \E y \in BOOLEAN : assume_yes' = y
    /\ pc' = "stop"
    /\ UNCHANGED <<master_only, local_path, arg_remote_path, remote_path,
                   file_size_bytes, num_nodes, services, calls, copied_to,
                   launched, raised, exit_code, traceback, unit>>

stop_option_requires ==
    /\ pc = "stop"
    /\ LET r == requires_region(scope)
       IN  IF r = "ok" THEN pc' = "stop_get_cluster" /\ raised' = raised
           ELSE Raise(r)
    /\ UNCHANGED <<command, scope, assume_yes, master_only, local_path,
                   arg_remote_path, remote_path, file_size_bytes, num_nodes,
                   services, calls, copied_to, launched, exit_code, traceback,
                   unit>>

stop_get_cluster ==
    /\ pc = "stop_get_cluster"
    /\ Called("ec2.get_cluster", "stop_check")
    /\ UNCHANGED <<command, scope, assume_yes, master_only, local_path,
                   arg_remote_path, remote_path, file_size_bytes, num_nodes,
                   services, copied_to, launched, exit_code, traceback, unit>>

\* stop_check with the guard's exception swallowed: the command goes on
stop_check_swallowed ==
    /\ pc = "stop_check"
    /\ \E o \in Outcomes : calls' = Append(calls, Call("cluster.stop_check", o))
    /\ pc' = "stop_confirm"
    /\ UNCHANGED <<command, scope, assume_yes, master_only, local_path,
                   arg_remote_path, remote_path, file_size_bytes, num_nodes,
                   services, copied_to, launched, raised, exit_code, traceback,
                   unit>>

\* `cluster.stop_check()`
stop_check ==
    /\ pc = "stop_check"
    /\ Called("cluster.stop_check", "stop_confirm")
    /\ UNCHANGED <<command, scope, assume_yes, master_only, local_path,
                   arg_remote_path, remote_path, file_size_bytes, num_nodes,
                   services, copied_to, launched, exit_code, traceback, unit>>

\* `if not assume_yes: cluster.print(); click.confirm(..., abort=True)`
stop_confirm ==
    /\ pc = "stop_confirm"
    /\ IF ~assume_yes THEN PrintAndConfirm("stop_stop")
       ELSE pc' = "stop_stop" /\ UNCHANGED <<calls, raised>>
    /\ UNCHANGED <<command, scope, assume_yes, master_only, local_path,
                   arg_remote_path, remote_path, file_size_bytes, num_nodes,
                   services, copied_to, launched, exit_code, traceback, unit>>

\* `cluster.stop()`
stop_stop ==
    /\ pc = "stop_stop"
    /\ Called("cluster.stop", "main_return")
    /\ UNCHANGED <<command, scope, assume_yes, master_only, local_path,
                   arg_remote_path, remote_path, file_size_bytes, num_nodes,
                   services, copied_to, launched, exit_code, traceback, unit>>

\* ------------------------------------------------------------- run-command

Invoke_run_command ==
    /\ pc = "ready"
    /\ command' = "run-command"
    /\ \E region \in Regions, identity_file \in Optional, user \in Optional :
         scope' = LoginScope(region, identity_file, user)
    /\ \E m \in BOOLEAN : master_only' = m
    /\ pc' = "run_command"
    /\ UNCHANGED <<assume_yes, local_path, arg_remote_path, remote_path,
                   file_size_bytes, num_nodes, services, calls, copied_to,
                   launched, raised, exit_code, traceback, unit>>

run_command_option_requires ==
    /\ pc = "run_command"
    /\ LET r == requires_login(scope)
       IN  IF r = "ok" THEN pc' = "run_command_get_cluster" /\ raised' = raised
           ELSE Raise(r)
    /\ UNCHANGED <<command, scope, assume_yes, master_only, local_path,
                   arg_remote_path, remote_path, file_size_bytes, num_nodes,
                   services, calls, copied_to, launched, exit_code, traceback,
                   unit>>

run_command_get_cluster ==
    /\ pc = "run_command_get_cluster"
    /\ Called("ec2.get_cluster", "run_command_check")
    /\ UNCHANGED <<command, scope, assume_yes, master_only, local_path,
                   arg_remote_path, remote_path, file_size_bytes, num_nodes,
                   services, copied_to, launched, exit_code, traceback, unit>>

\* `cluster.run_command_check()`
run_command_check ==
    /\ pc = "run_command_check"
    /\ Called("cluster.run_command_check", "run_command_run")
    /\ UNCHANGED <<command, scope, assume_yes, master_only, local_path,
                   arg_remote_path, remote_path, file_size_bytes, num_nodes,
                   services, copied_to, launched, exit_code, traceback, unit>>

\* `cluster.run_command(command=..., master_only=..., ...)`
run_command_run ==
    /\ pc = "run_command_run"
    /\ Called("cluster.run_command", "main_return")
    /\ UNCHANGED <<command, scope, assume_yes, master_only, local_path,
                   arg_remote_path, remote_path, file_size_bytes, num_nodes,
                   services, copied_to, launched, exit_code, traceback, unit>>

\* --------------------------------------------------------------- copy-file

\* the total size above which copy-file asks before uploading: 10 ** 6
LargeUpload == 1000000

Invoke_copy_file ==
    /\ pc = "ready"
    /\ command' = "copy-file"
    /\ \E region \in Regions, identity_file \in Optional, user \in Optional :
         scope' = LoginScope(region, identity_file, user)
    /\ \E m \in BOOLEAN : master_only' = m
    /\ \E y \in BOOLEAN : assume_yes' = y
    /\ \E l \in LocalPaths : local_path' = l
    /\ \E r \in RemotePaths : arg_remote_path' = r /\ remote_path' = r
    /\ pc' = "copy_file"
    /\ UNCHANGED <<file_size_bytes, num_nodes, services, calls, copied_to,
                   launched, raised, exit_code, traceback, unit>>

copy_file_option_requires ==
    /\ pc = "copy_file"
    /\ LET r == requires_login(scope)
       IN  IF r = "ok" THEN pc' = "copy_file_remote_path" /\ raised' = raised
           ELSE Raise(r)
    /\ UNCHANGED <<command, scope, assume_yes, master_only, local_path,
                   arg_remote_path, remote_path, file_size_bytes, num_nodes,
                   services, calls, copied_to, launched, exit_code, traceback,
                   unit>>

\* normalized_remote_path joining the whole local path, not its base name
normalized_remote_path_whole_local(remote, local) ==
    IF basename(remote) = <<>> THEN join(remote, local) ELSE remote

\* `if not posixpath.basename(remote_path):
\*      remote_path = posixpath.join(remote_path, os.path.basename(local_path))`
normalized_remote_path(remote, local) ==
    IF basename(remote) = <<>> THEN join(remote, basename(local)) ELSE remote

copy_file_remote_path ==
    /\ pc = "copy_file_remote_path"
    /\ remote_path' = normalized_remote_path(remote_path, local_path)
    /\ pc' = "copy_file_get_cluster"
    /\ UNCHANGED <<command, scope, assume_yes, master_only, local_path,
                   arg_remote_path, file_size_bytes, num_nodes, services, calls,
                   copied_to, launched, raised, exit_code, traceback, unit>>

copy_file_get_cluster ==
    /\ pc = "copy_file_get_cluster"
    /\ Called("ec2.get_cluster", "copy_file_check")
    /\ UNCHANGED <<command, scope, assume_yes, master_only, local_path,
                   arg_remote_path, remote_path, file_size_bytes, num_nodes,
                   services, copied_to, launched, exit_code, traceback, unit>>

\* `cluster.copy_file_check()`
copy_file_check ==
    /\ pc = "copy_file_check"
    /\ Called("cluster.copy_file_check", "copy_file_confirm")
    /\ UNCHANGED <<command, scope, assume_yes, master_only, local_path,
                   arg_remote_path, remote_path, file_size_bytes, num_nodes,
                   services, copied_to, launched, exit_code, traceback, unit>>

\* large_upload with `>=` for `>`
large_upload_or_equal(size, nodes) == size * nodes >= LargeUpload

\* `total_size_bytes > 10 ** 6`
large_upload(size, nodes) == size * nodes > LargeUpload

\* the size check and, for a large upload, `click.confirm(..., abort=True)`;
\* the size and the number of slaves are read only when the check is made
copy_file_confirm ==
    /\ pc = "copy_file_confirm"
    /\ IF ~assume_yes /\ ~master_only
       THEN \E size \in FileSizes, slaves \in 0..MaxSlaves :
              /\ file_size_bytes' = size
              /\ num_nodes' = slaves + 1
              /\ IF large_upload(size, slaves + 1)
                 THEN \E answer \in BOOLEAN :
                        IF answer
                        THEN /\ calls' = Append(calls,
                                               Call("click.confirm", "ok"))
                             /\ pc' = "copy_file_copy"
                             /\ raised' = raised
                        ELSE /\ calls' = Append(calls,
                                               Call("click.confirm", "Abort"))
                             /\ Raise("Abort")
                 ELSE pc' = "copy_file_copy" /\ UNCHANGED <<calls, raised>>
       ELSE /\ pc' = "copy_file_copy"
            /\ UNCHANGED <<file_size_bytes, num_nodes, calls, raised>>
    /\ UNCHANGED <<command, scope, assume_yes, master_only, local_path,
                   arg_remote_path, remote_path, services, copied_to, launched,
                   exit_code, traceback, unit>>

\* `cluster.copy_file(local_path=..., remote_path=remote_path, ...)`
copy_file_copy ==
    /\ pc = "copy_file_copy"
    /\ copied_to' = remote_path
    /\ Called("cluster.copy_file", "main_return")
    /\ UNCHANGED <<command, scope, assume_yes, master_only, local_path,
                   arg_remote_path, remote_path, file_size_bytes, num_nodes,
                   services, launched, exit_code, traceback, unit>>

\* -------------------------------------------------------------------- main

\* isinstance(e, Error): the tool's own exceptions
IsError(e) == e \in {"NothingToDo", "UsageError", "Error"}

\* exit_code_for treating every exception of the tool but UsageError as
\* NothingToDo
exit_code_for_errors_zero(e) ==
    IF e \in {"NothingToDo", "Error"} THEN 0
    ELSE IF e = "UsageError" THEN 2
    ELSE 1

\* exit_code_for with the UsageError clause lost: UsageError falls through to
\* `except Exception`
exit_code_for_no_usage_clause(e) ==
    IF e = "NothingToDo" THEN 0 ELSE 1

\* the code main returns for an exception caught by its except clauses
exit_code_for(e) ==
    IF e = "NothingToDo" THEN 0
    ELSE IF e = "UsageError" THEN 2
    ELSE 1

\* `cli(obj={})` came back without an exception: the process ends with 0
main_return ==
    /\ pc = "main_return"
    /\ exit_code' = 0
    /\ pc' = "exited"
    /\ UNCHANGED <<command, scope, assume_yes, master_only, local_path,
                   arg_remote_path, remote_path, file_size_bytes, num_nodes,
                   services, calls, copied_to, launched, raised, traceback,
                   unit>>

\* main's except clauses
main_except ==
    /\ pc = "main_except"
    /\ exit_code' = exit_code_for(raised)
    /\ traceback' = ~IsError(raised)
    /\ pc' = "exited"
    /\ UNCHANGED <<command, scope, assume_yes, master_only, local_path,
                   arg_remote_path, remote_path, file_size_bytes, num_nodes,
                   services, calls, copied_to, launched, raised, unit>>

\* click.Abort never reaches main's except clauses: click ends the process
\* with code 1 inside `cli(obj={})`
click_abort ==
    /\ pc = "click_abort"
    /\ exit_code' = 1
    /\ pc' = "exited"
    /\ UNCHANGED <<command, scope, assume_yes, master_only, local_path,
                   arg_remote_path, remote_path, file_size_bytes, num_nodes,
                   services, calls, copied_to, launched, raised, traceback,
                   unit>>

\* ----------------------------------------------------------- specification

Next ==
    \/ Call_option_requires
    \/ Call_mutually_exclusive
    \/ Invoke_launch
    \/ launch_checks
    \/ launch_services
    \/ launch_provider
    \/ Invoke_destroy
    \/ destroy_option_requires
    \/ destroy_get_cluster
    \/ destroy_confirm
    \/ destroy_destroy
    \/ Invoke_start
    \/ start_option_requires
    \/ start_get_cluster
    \/ start_check
    \/ start_start
    \/ Invoke_stop
    \/ stop_option_requires
    \/ stop_get_cluster
    \/ stop_check
    \/ stop_confirm
    \/ stop_stop
    \/ Invoke_run_command
    \/ run_command_option_requires
    \/ run_command_get_cluster
    \/ run_command_check
    \/ run_command_run
    \/ Invoke_copy_file
    \/ copy_file_option_requires
    \/ copy_file_remote_path
    \/ copy_file_get_cluster
    \/ copy_file_check
    \/ copy_file_confirm
    \/ copy_file_copy
    \/ main_return
    \/ main_except
    \/ click_abort

Spec == Init /\ [][Next]_vars

\* ------------------------------------------------------------------ claims

\* the positions i of `calls` where fn was called
CallsOf(fn) == {i \in 1..Len(calls) : calls[i].fn = fn}

\* the guarded commands: command, guard, cluster operation
Guarded ==
    {<<"start", "cluster.start_check", "cluster.start">>,
     <<"stop", "cluster.stop_check", "cluster.stop">>,
     <<"run-command", "cluster.run_command_check", "cluster.run_command">>,
     <<"copy-file", "cluster.copy_file_check", "cluster.copy_file">>}

\* C1: in start, stop, run-command and copy-file the cluster operation is
\* called only after the command's guard was called and returned; once the
\* guard has raised, neither the cluster operation nor a confirmation prompt
\* follows.
C1_GuardBeforeOperation ==
    \A g \in Guarded :
      command = g[1] =>
        /\ \A j \in CallsOf(g[3]) : \E i \in CallsOf(g[2]) :
             i < j /\ calls[i].outcome = "ok"
        /\ \A i \in CallsOf(g[2]) :
             calls[i].outcome # "ok" =>
               /\ CallsOf(g[3]) = {}
               /\ \A j \in CallsOf("click.confirm") : j < i
               /\ i = Len(calls)
               /\ raised = calls[i].outcome

\* C1's case: a guard has raised and the process has ended
C1_Witness ==
    /\ pc = "exited"
    /\ command = "stop"
    /\ ~assume_yes
    /\ \E i \in CallsOf("cluster.stop_check") : calls[i].outcome = "Error"

\* the names a lifecycle-state guard of the cluster goes by
GuardNames ==
    {"cluster.start_check", "cluster.stop_check", "cluster.run_command_check",
     "cluster.copy_file_check", "cluster.destroy_check"}

EndsWithSlash(p) == p = <<>> \/ p[Len(p)] = "/"

\* C3: copy-file hands cluster.copy_file the remote path joined with the
\* local path's base name when the remote path has an empty base name, and
\* the remote path unchanged otherwise; the path is settled before the cluster
\* is looked up and is the one value the single cluster.copy_file call gets.
C3_RemotePath ==
    command = "copy-file" =>
      LET expected ==
            IF EndsWithSlash(arg_remote_path)
            THEN join(arg_remote_path, basename(local_path))
            ELSE arg_remote_path
      IN  /\ calls # <<>> => remote_path = expected
          /\ CallsOf("cluster.copy_file") # {} => copied_to = expected
          /\ Cardinality(CallsOf("cluster.copy_file")) <= 1
          /\ (EndsWithSlash(arg_remote_path) /\ calls # <<>>)
               => /\ remote_path = arg_remote_path \o basename(local_path)
                  /\ basename(remote_path) = basename(local_path)

\* C3's case: a remote directory was given and the file was copied
C3_Witness ==
    /\ command = "copy-file"
    /\ arg_remote_path = <<"/", "a", "/">>
    /\ local_path = <<"a", "/", "a">>
    /\ copied_to = <<"/", "a", "/", "a">>
    /\ CallsOf("cluster.copy_file") # {}

\* C4: run-command and copy-file end with a nonzero code whenever the
\* cluster operation raised anything but NothingToDo, and a code of 0 is
\* reached only when nothing was raised or NothingToDo was.
C4_NonzeroOnFailure ==
    (pc = "exited" /\ command \in {"run-command", "copy-file"}) =>
      /\ \A i \in CallsOf("cluster.run_command") \cup CallsOf("cluster.copy_file") :
           calls[i].outcome \notin {"ok", "NothingToDo"} => exit_code # 0
      /\ exit_code = 0 =>
           /\ raised \in {"none", "NothingToDo"}
           /\ \A i \in 1..Len(calls) : calls[i].outcome \in {"ok", "NothingToDo"}

\* C4's case: the fleet operation failed and the process ended with 1
C4_Witness ==
    /\ pc = "exited"
    /\ command = "run-command"
    /\ \E i \in CallsOf("cluster.run_command") : calls[i].outcome = "Error"
    /\ exit_code = 1

\* whether an option has a value set in a scope: its variable is there and
\* holds neither None nor the empty string
IsSet(option, sc) ==
    LET n == option_name_to_variable_name(option)
    IN  n \in DOMAIN sc /\ sc[n] # None /\ sc[n] # ""

EntriesOf(list, service) == {i \in 1..Len(list) : list[i].service = service}

\* C6 as stated: whenever launch's option checks pass with install_spark
\* true, launch goes on with exactly one Spark descriptor in the services
\* list, parametrized by version or by (git repository, git commit), and every
\* HDFS descriptor has a version that is not None.
C6_OneSparkDescriptor ==
    (/\ command = "launch"
     /\ pc \notin {"ready", "launch", "launch_services"}
     /\ launch_option_checks(scope) = "ok"
     /\ scope[Var_install_spark] = "True")
    => /\ Cardinality(EntriesOf(services, "Spark")) = 1
       /\ \A i \in EntriesOf(services, "Spark") :
            \/ services[i].version # None /\ services[i].git_commit = None
            \/ /\ services[i].version = None
               /\ services[i].git_commit # None
               /\ services[i].git_repository # None
       /\ \A i \in EntriesOf(services, "HDFS") : services[i].version # None

\* C7: the services list ec2.launch is called with has an HDFS entry iff
\* install_hdfs, a Spark entry iff install_spark, at most one of each, nothing
\* else, and HDFS before Spark.
C7_ServiceOrder ==
    CallsOf("ec2.launch") # {} =>
      LET n_hdfs == IF scope[Var_install_hdfs] = "True" THEN 1 ELSE 0
          n_spark == IF scope[Var_install_spark] = "True" THEN 1 ELSE 0
      IN  /\ Cardinality(EntriesOf(launched, "HDFS")) = n_hdfs
          /\ Cardinality(EntriesOf(launched, "Spark")) = n_spark
          /\ Len(launched) = n_hdfs + n_spark
          /\ \A i \in EntriesOf(launched, "HDFS") :
               \A j \in EntriesOf(launched, "Spark") : i < j

\* C7's case: both services were requested and the provider was called
C7_Witness ==
    /\ CallsOf("ec2.launch") # {}
    /\ scope[Var_install_hdfs] = "True"
    /\ scope[Var_install_spark] = "True"
    /\ Len(launched) = 2

\* the options launch requires for the ec2 provider, by variable
Ec2Required ==
    {Var_ec2_key_name, Var_ec2_identity_file, Var_ec2_instance_type,
     Var_ec2_region, Var_ec2_ami, Var_ec2_user}

\* whether launch's options break one of its four checks
LaunchOptionsBad(sc) ==
    \/ sc[Var_hdfs_version] = None
    \/ sc[Var_spark_version] = None /\ sc[Var_spark_git_commit] = None
    \/ sc[Var_spark_version] \notin {None, ""}
         /\ sc[Var_spark_git_commit] \notin {None, ""}
    \/ \E v \in Ec2Required : sc[v] = None

\* C8: launch makes all its option checks before the provider is asked for
\* anything: when one of them fails launch raises UsageError with nothing
\* called, and ec2.launch is called only with options that pass them all.
C8_ChecksBeforeProvider ==
    command = "launch" =>
      /\ LaunchOptionsBad(scope) =>
           /\ calls = <<>>
           /\ pc \notin {"ready", "launch"} => raised = "UsageError"
      /\ (raised = "UsageError" /\ calls = <<>>) => LaunchOptionsBad(scope)
      /\ CallsOf("ec2.launch") # {} => ~LaunchOptionsBad(scope)

\* C8's case: only the provider's check fails, and launch ended in
\* UsageError with nothing called
C8_Witness ==
    /\ command = "launch"
    /\ pc = "exited"
    /\ scope[Var_hdfs_version] = "v"
    /\ scope[Var_spark_version] = "v"
    /\ scope[Var_spark_git_commit] = None
    /\ scope[Var_ec2_user] = None
    /\ raised = "UsageError"
    /\ calls = <<>>

\* the elements of a list
Elements(list) == {list[i] : i \in 1..Len(list)}

\* C9: option_requires raises UsageError exactly when its condition applies
\* (conditional_value is None, or the option's value in scope equals it) and
\* either requires_all is non-empty with a listed option absent or None, or
\* requires_any is non-empty with every listed option absent or None; when the
\* option's value differs from a conditional_value that is not None it returns.
C9_OptionRequires ==
    unit.fn = "option_requires" =>
      LET sc == unit.scope
          name == option_name_to_variable_name(unit.option)
          defined(o) ==
              LET n == option_name_to_variable_name(o)
              IN  n \in DOMAIN sc /\ sc[n] # None
          applies ==
              \/ unit.conditional_value = None
              \/ name \in DOMAIN sc /\ sc[name] = unit.conditional_value
          all_fails ==
              /\ unit.requires_all # <<>>
              /\ \E o \in Elements(unit.requires_all) : ~defined(o)
          any_fails ==
              /\ unit.requires_any # <<>>
              /\ \A o \in Elements(unit.requires_any) : ~defined(o)
      IN  /\ unit.result = "UsageError" <=> (applies /\ (all_fails \/ any_fails))
          /\ (/\ unit.conditional_value # None
              /\ name \in DOMAIN sc
              /\ sc[name] # unit.conditional_value)
             => unit.result = "ok"

\* C9's case: the condition applies by value, an option given as '' counts
\* as defined, and requires_any is not met
C9_Witness ==
    /\ unit.fn = "option_requires"
    /\ unit.option = <<"-", "-", "a">>
    /\ unit.conditional_value = ""
    /\ unit.scope = (<<"a">> :> "")
    /\ unit.requires_all = << <<"-", "-", "a">> >>
    /\ unit.requires_any = << <<"-", "-", "b", "-", "c">> >>
    /\ unit.result = "UsageError"

\* the commands gated by a confirmation, with their cluster operation
Confirmed == {<<"destroy", "cluster.destroy">>, <<"stop", "cluster.stop">>}

\* C10: in destroy and stop, without assume_yes the cluster operation is
\* called only right after the cluster was printed and the user confirmed, and
\* a refusal aborts the command with the operation never called; with
\* assume_yes nothing is printed or asked; stop asks only after stop_check
\* returned.
C10_ConfirmationGate ==
    \A c \in Confirmed :
      command = c[1] =>
        /\ ~assume_yes =>
             \A j \in CallsOf(c[2]) :
               /\ j > 2
               /\ calls[j - 2] = Call("cluster.print", "ok")
               /\ calls[j - 1] = Call("click.confirm", "ok")
        /\ \A i \in CallsOf("click.confirm") :
             calls[i].outcome # "ok" =>
               /\ CallsOf(c[2]) = {}
               /\ i = Len(calls)
               /\ raised = "Abort"
        /\ assume_yes =>
             CallsOf("click.confirm") = {} /\ CallsOf("cluster.print") = {}
        /\ command = "stop" =>
             \A i \in CallsOf("click.confirm") :
               \E k \in 1..(i - 1) : calls[k] = Call("cluster.stop_check", "ok")

\* C10's case: the user refused to destroy and the process ended
C10_Witness ==
    /\ command = "destroy"
    /\ pc = "exited"
    /\ ~assume_yes
    /\ calls = <<Call("ec2.get_cluster", "ok"), Call("cluster.print", "ok"),
                 Call("click.confirm", "Abort")>>
    /\ exit_code = 1

\* C11: an exception that leaves the command group is mapped by main to an
\* exit code: 0 for NothingToDo, 2 for UsageError, 1 for any other; a
\* traceback is printed only for an exception that is not one of the tool's
\* own (Error); and main always ends with a code, no exception leaves it.
C11_ExitCodes ==
    /\ (pc = "exited" /\ raised \notin {"none", "Abort"}) =>
         /\ raised = "NothingToDo" => exit_code = 0
         /\ raised = "UsageError" => exit_code = 2
         /\ raised \notin {"NothingToDo", "UsageError"} => exit_code = 1
    /\ traceback =>
         /\ pc = "exited"
         /\ raised \notin {"none", "Abort", "NothingToDo", "UsageError", "Error"}
    /\ pc = "exited" => exit_code \in {0, 1, 2}
    /\ pc = "main_except" => ENABLED main_except

\* C11's case: a command's option check raised UsageError and main ended
\* with 2 and no traceback
C11_Witness ==
    /\ pc = "exited"
    /\ command = "start"
    /\ calls = <<>>
    /\ raised = "UsageError"
    /\ exit_code = 2
    /\ ~traceback

\* C12: once copy_file_check has returned, copy-file asks for the
\* large-upload confirmation exactly when assume_yes is false, master_only is
\* false and file size times (number of slaves + 1) is above 10^6; otherwise
\* cluster.copy_file is called with nothing asked.  The prompt never comes
\* before copy_file_check returned, and a refusal means cluster.copy_file is
\* never called.
C12_LargeUploadPrompt ==
    command = "copy-file" =>
      LET asked == CallsOf("click.confirm")
          checked == \E k \in 1..Len(calls) :
                       calls[k] = Call("cluster.copy_file_check", "ok")
          decided == checked /\ pc # "copy_file_confirm"
      IN  /\ decided =>
               (asked # {} <=> /\ ~assume_yes
                               /\ ~master_only
                               /\ num_nodes >= 1
                               /\ file_size_bytes * num_nodes > 1000000)
          /\ (decided /\ asked = {} /\ pc # "copy_file_copy")
               => CallsOf("cluster.copy_file") # {}
          /\ ~decided => asked = {}
          /\ \A i \in asked :
               /\ \E k \in 1..(i - 1) :
                    calls[k] = Call("cluster.copy_file_check", "ok")
               /\ calls[i].outcome # "ok" =>
                    /\ CallsOf("cluster.copy_file") = {}
                    /\ i = Len(calls)
                    /\ raised = "Abort"

\* C12's case: three nodes make the upload large, the user was asked and
\* refused
C12_Witness ==
    /\ command = "copy-file"
    /\ pc = "exited"
    /\ file_size_bytes = 333334
    /\ num_nodes = 3
    /\ calls[Len(calls)] = Call("click.confirm", "Abort")
    /\ CallsOf("cluster.copy_file") = {}

====
